---- MODULE Spec2Model ----
(***************************************************************************)
(* DeepSeeker: the sequential research pipeline DeepSeekerOrchestrator.run *)
(* (deepseeker/orchestrator.py), the concurrent reader pool                *)
(* run_parallel_readers (deepseeker/reader.py) and the search fan-out      *)
(* SearchProvider.search_multi (deepseeker/search/provider.py).            *)
(*                                                                         *)
(* Each program is a specification of its own over the shared variables:   *)
(*   SpecRun      one call of DeepSeekerOrchestrator.run                   *)
(*   SpecReaders  one call of run_parallel_readers                         *)
(*   SpecMulti    one call of SearchProvider.search_multi                  *)
(*   SpecValidate one validation by ControllerDecision, and a second one   *)
(*   SpecSearch   one call of BingSiftProvider.search, with net._fetch     *)
(*   SpecSecondRun a second call of run() on the same orchestrator         *)
(*   SpecStep1    one call of DeepSeekerStep1.run, with parse_tool_calls   *)
(*   SpecBatches, SpecPools, SpecNet: two of the programs side by side     *)
(* SpecRun goes on to cmd_run (deepseeker/cli.py), the caller of run().    *)
(* External collaborators (the LLM endpoints, the search engine, the page  *)
(* fetch) are the environment: every answer they can give, and every       *)
(* exception they can raise, is a nondeterministic choice.                 *)
(***************************************************************************)
EXTENDS Integers, Sequences, FiniteSets, TLC

\* ------------------------------------------------------------- bounds
\* The longest search plan LLM0 returns.
MaxQueries == 2
\* The longest selected_ids list LLM0 returns.
MaxSel == 2

\* --------------------------------------------------- program constants
\* int(s.get("max_results", 10)): the default per-request result cap.
MaxResultsDefault == 10

\* ------------------------------------------------------------- inputs
Question == "q0"
QueryTexts == {"qa"}
\* What one SERP fetch can hold: no hit, one hit, two hits.
HitLists == {<<>>, <<"u1">>, <<"u1", "u2">>}
\* What LLM0 can put in direct_answer.
AnswerTexts == {"", "42"}
\* The action strings LLM0 can return; "other" is any the planner does not know.
PlanActions == {"direct_answer", "search_then_answer", "other"}

\* ------------------------------------------------------------ helpers
RECURSIVE SeqsUpTo(_, _)
SeqsUpTo(S, n) ==
  IF n = 0 THEN {<<>>}
  ELSE LET shorter == SeqsUpTo(S, n - 1)
       IN shorter \cup {Append(s, x) : s \in {t \in shorter : Len(t) = n - 1}, x \in S}

Take(s, n) == SubSeq(s, 1, IF n < Len(s) THEN n ELSE Len(s))

RECURSIVE SelectSeq2(_, _)
\* [s[i] for i in order if Test(s[i])] for a set-membership test.
SelectSeq2(s, keep) ==
  IF s = <<>> THEN <<>>
  ELSE IF Head(s) \in keep THEN <<Head(s)>> \o SelectSeq2(Tail(s), keep)
       ELSE SelectSeq2(Tail(s), keep)

\* ----------------------------------------------------------- the data
\* f"r{idx}" and f"s{idx}_r{r_index}": the two id formats. Both print their
\* numbers in decimal around fixed separators, so two ids are equal exactly
\* when their numbers are; s = 0 stands for the format without a search part.
RId(i) == [s |-> 0, r |-> i]
SId(idx, r_index) == [s |-> idx, r |-> r_index]

None == [kind |-> "None"]
NoData == [empty |-> TRUE]

\* JSON values as they reach the pydantic models: a key that is absent, a
\* string, an integer, a list, an object; null is None.
Missing == [kind |-> "missing"]
Str(s) == [kind |-> "str", v |-> s]
IntV(n) == [kind |-> "int", v |-> n]
List(items) == [kind |-> "list", v |-> items]

StepEvent(step_type, message, data, error) ==
  [step_type |-> step_type, message |-> message, data |-> data, error |-> error]

FinalAnswer(answer, notes) ==
  [kind |-> "FinalAnswer", answer |-> answer, key_points |-> <<>>,
   used_results |-> <<>>, notes |-> notes]

_wrap_direct_answer(answer_text) == FinalAnswer(answer_text, "direct")

DeepSeekerReport(final_answer, steps, search_results, raw_summaries) ==
  [question |-> Question, final_answer |-> final_answer, steps |-> steps,
   search_results |-> search_results, raw_summaries |-> raw_summaries]

\* ------------------------------------------------------- the variables
VARIABLES
  \* DeepSeekerOrchestrator.run
  pc,            \* where run() stands: the external call it is about to make
  plan,          \* the PlanDecision of step 1
  sidx,          \* idx of the search loop
  all_results,   \* list[SearchResult]
  read_targets,  \* the resolved selection
  ridx,          \* position of the read loop in read_targets
  summaries,     \* list[ArticleSummary]
  events,        \* StepLogger.events
  calls,         \* the external calls made so far, each with len(events) then
  report,        \* the DeepSeekerReport under construction / returned
  llm_records,   \* StepLogger.llm_records
  \* cmd_run, the caller of run()
  stdout,        \* the sections cmd_run has printed
  exit_status    \* the status the process ended with, None while it runs

VARIABLES
  \* run_parallel_readers
  rp_pc,         \* where run_parallel_readers stands
  docs,          \* its docs argument
  concurrency,   \* its concurrency argument
  task,          \* per document: the state of the worker task started for it
  results,       \* the results list the workers append to
  writes         \* the writes of the workers: who wrote to which object

VARIABLES
  \* SearchProvider.search_multi
  sm_pc,         \* where search_multi stands
  queries,       \* its queries argument
  qidx,          \* position of the query loop
  pooled,        \* the concatenated per-query results
  uniq,          \* the list it returns
  fetched,       \* what each self.search call returned, in call order
  url_hash       \* hash(): the process's hash value of each URL string

VARIABLES
  \* ControllerDecision(**data), the decision validator
  v_pc,          \* where the validation stands
  v_data,        \* the raw object handed to ControllerDecision
  v_result,      \* what the first validation gave
  v_again        \* what validating the dumped decision gave

VARIABLES
  \* BingSiftProvider.search, down to bingsift.net._fetch
  bs_pc,         \* where the search stands
  bs_recency,    \* its recency_days argument
  bs_self_when,  \* self.when
  bs_retries,    \* self.retries, handed down to _fetch
  when,          \* the freshness handed to fetch_serp_by_query
  attempt,       \* _fetch: the loop variable
  last_exc,      \* _fetch: the last exception caught
  tries,         \* the requests made, each with its outcome
  slept,         \* the delays slept, in order
  fetch_out      \* what _fetch returned or raised

VARIABLES
  s1_pc,         \* DeepSeekerStep1.run: where the call is
  raw,           \* the reply of LLM0: its tool blocks, in order
  tool_calls,    \* what parse_tool_calls returned
  step1          \* the Step1Result run() returned

runVars == <<pc, plan, sidx, all_results, read_targets, ridx, summaries,
             events, calls, report, llm_records, stdout, exit_status>>
readerVars == <<rp_pc, docs, concurrency, task, results, writes>>
multiVars == <<sm_pc, queries, qidx, pooled, uniq, fetched, url_hash>>

valVars == <<v_pc, v_data, v_result, v_again>>

searchVars == <<bs_pc, bs_recency, bs_self_when, bs_retries, when, attempt,
                last_exc, tries, slept, fetch_out>>

step1Vars == <<s1_pc, raw, tool_calls, step1>>

vars == <<runVars, readerVars, multiVars, valVars, searchVars, step1Vars>>

\* What each program leaves alone: the variables of the others.
notRun == <<readerVars, multiVars, valVars, searchVars, step1Vars>>
notReaders == <<runVars, multiVars, valVars, searchVars, step1Vars>>
notMulti == <<runVars, readerVars, valVars, searchVars, step1Vars>>
notValidate == <<runVars, readerVars, multiVars, searchVars, step1Vars>>
notSearch == <<runVars, readerVars, multiVars, valVars, step1Vars>>
notStep1 == <<runVars, readerVars, multiVars, valVars, searchVars>>

\* The programs a specification does not run stay as they are.
RunIdle ==
  /\ pc = "idle" /\ plan = <<>> /\ sidx = 0 /\ all_results = <<>>
  /\ read_targets = <<>> /\ ridx = 0 /\ summaries = <<>> /\ events = <<>>
  /\ calls = <<>> /\ report = <<>> /\ llm_records = <<>>
  /\ stdout = <<>> /\ exit_status = None
ReadersIdle ==
  /\ rp_pc = "idle" /\ docs = <<>> /\ concurrency = 0 /\ task = <<>>
  /\ results = <<>> /\ writes = <<>>
MultiIdle ==
  /\ sm_pc = "idle" /\ queries = <<>> /\ qidx = 0 /\ pooled = <<>>
  /\ uniq = <<>> /\ fetched = <<>> /\ url_hash = <<>>

ValidateIdle ==
  /\ v_pc = "idle" /\ v_data = <<>> /\ v_result = <<>> /\ v_again = <<>>

SearchIdle ==
  /\ bs_pc = "idle" /\ bs_recency = None /\ bs_self_when = "" /\ bs_retries = 0
  /\ when = "" /\ attempt = 0 /\ last_exc = None /\ tries = <<>>
  /\ slept = <<>> /\ fetch_out = None

Step1Idle ==
  /\ s1_pc = "idle" /\ raw = <<>> /\ tool_calls = <<>> /\ step1 = None

\* ---------------------------------------------------- LLM0: the planner
SearchRequest(query, max_results) == [query |-> query, max_results |-> max_results]

PlanDecision(action, direct_answer, search_requests) ==
  [action |-> action, direct_answer |-> direct_answer,
   search_requests |-> search_requests]

\* The JSON objects chat_json can return for the planning prompt.
PlanData ==
  [action : {"direct_answer"}, direct_answer : AnswerTexts, searches : {<<>>}]
  \cup [action : {"search_then_answer"}, direct_answer : {""},
        searches : SeqsUpTo(QueryTexts, MaxQueries)]
  \cup [action : PlanActions \ {"direct_answer", "search_then_answer"},
        direct_answer : {""}, searches : {<<>>}]

call_llm0_plan(data) ==
  IF data.action = "direct_answer"
  THEN PlanDecision("direct_answer", data.direct_answer, <<>>)
  ELSE IF data.action = "search_then_answer"
  THEN PlanDecision("search_then_answer", "",
         [i \in 1..Len(data.searches) |->
            SearchRequest(data.searches[i], MaxResultsDefault)])
  ELSE \* fallback: invalid action, a single search for the question itself
       PlanDecision("search_then_answer", "",
         <<SearchRequest(Question, MaxResultsDefault)>>)

\* PlanBranch with the test of direct_answer inverted.
PlanBranchEmptyAnswer(p) ==
  IF p.action = "direct_answer" /\ p.direct_answer = "" THEN "direct"
  ELSE IF p.action # "search_then_answer" \/ p.search_requests = <<>> THEN "abort"
  ELSE "search"

\* The branch run() takes on a plan.
PlanBranch(p) ==
  IF p.action = "direct_answer" /\ p.direct_answer # "" THEN "direct"
  ELSE IF p.action # "search_then_answer" \/ p.search_requests = <<>> THEN "abort"
  ELSE "search"

\* ------------------------------------------------------- SearchClient
\* SearchClient.search: the rows cut to max_results, ids r1, r2, ...
SearchClient_search(req, rows) ==
  LET cut == Take(rows, req.max_results)
  IN [i \in 1..Len(cut) |-> [id |-> RId(i), url |-> cut[i]]]

\* Relabel leaving the ids SearchClient.search gave.
RelabelKeepsIds(partial, idx) == partial

\* "Relabel IDs so they are unique across searches".
Relabel(partial, idx) ==
  [r_index \in 1..Len(partial) |-> [partial[r_index] EXCEPT !.id = SId(idx, r_index)]]

\* selected_map = {r.id: r for r in all_results}: a later entry with the
\* same id replaces an earlier one.
selected_map(rs, rid) ==
  LET hits == {i \in 1..Len(rs) : rs[i].id = rid}
  IN rs[CHOOSE i \in hits : \A j \in hits : j <= i]

Ids(rs) == {rs[i].id : i \in 1..Len(rs)}

\* ResolveSelection reading the first result for an id it does not know.
ResolveSelectionDefaults(selected_ids, rs) ==
  [i \in 1..Len(selected_ids) |->
     IF selected_ids[i] \in Ids(rs) THEN selected_map(rs, selected_ids[i]) ELSE rs[1]]

\* [selected_map[rid] for rid in selection.selected_ids if rid in selected_map]
ResolveSelection(selected_ids, rs) ==
  LET kept == SelectSeq2(selected_ids, Ids(rs))
  IN [i \in 1..Len(kept) |-> selected_map(rs, kept[i])]

\* The ids LLM0 can name: those it was shown, and one it was not.
SelUniverse(rs) == Ids(rs) \cup {RId(1)}

\* ArticleSummary with the result_id never attached: the id stays the one
\* the summarizer filled in, which names no result.
ArticleSummaryUnattached(r) == [result_id |-> RId(0), url |-> r.url]

\* The summary of result r once run() has attached r.id to it.
ArticleSummary(r) == [result_id |-> r.id, url |-> r.url]

ExtCall(call, arg, at) == [call |-> call, arg |-> arg, at |-> at]

\* ------------------------------------------------ JsonLLMClient.chat_json
\* LLMCallRecord; the timestamp is the number of step events logged by then.
LLMCallRecord(call_type, response, timestamp) ==
  [call_type |-> call_type, response |-> response, timestamp |-> timestamp]

\* response={"error": str(e)}
ErrorResponse == [error |-> "exception"]
\* A reply that is JSON but not what the caller can use: chat_json returns
\* it, and the caller raises on it (data.get, int(), float()).
BadReply == [kind |-> "unusable"]
\* How a call of an LLM helper can fail: inside chat_json (the request, an
\* empty content, content that is not JSON), or after it on the reply.
LLMFailures == {"chat_json_raises", "reply_rejected"}
\* The failures followed after the planning call: those inside chat_json.
ChatJsonFailures == {"chat_json_raises"}

\* StepLogger.log_llm_call
log_llm_call(records, call_type, response, now) ==
  Append(records, LLMCallRecord(call_type, response, now))

\* chat_json keeping no record of a call that failed.
chat_json_unlogged_error(records, call_type, reply, outcome, now) ==
  IF outcome = "chat_json_raises" THEN records
  ELSE log_llm_call(records, call_type, reply, now)

\* What chat_json leaves in the logger the orchestrator attached: the
\* record of the reply, or in its except branch the record of the error.
chat_json(records, call_type, reply, outcome, now) ==
  IF outcome = "chat_json_raises"
  THEN log_llm_call(records, call_type, ErrorResponse, now)
  ELSE log_llm_call(records, call_type, reply, now)

\* ------------------------------------------- DeepSeekerOrchestrator.run
InitRun ==
  /\ ReadersIdle /\ MultiIdle /\ ValidateIdle /\ SearchIdle /\ Step1Idle
  /\ pc = "plan"
  /\ plan = PlanDecision("", "", <<>>)
  /\ sidx = 0
  /\ all_results = <<>>
  /\ read_targets = <<>>
  /\ ridx = 0
  /\ summaries = <<>>
  /\ events = <<>>
  /\ calls = <<>>
  /\ report = DeepSeekerReport(None, <<>>, <<>>, <<>>)
  /\ llm_records = <<>>
  /\ stdout = <<>>
  /\ exit_status = None

\* An exception leaves run(): nothing is returned, report.steps is never set.
Raise(ev, cl) ==
  /\ pc' = "raised"
  /\ events' = ev
  /\ calls' = cl

\* Return losing the oldest event of the log.
ReturnDropsFirst(ev, cl, rep) ==
  /\ pc' = "returned"
  /\ events' = Tail(ev)
  /\ calls' = cl
  /\ report' = [rep EXCEPT !.steps = Tail(ev)]

\* report.steps = self.logger.events[:]; return report
Return(ev, cl, rep) ==
  /\ pc' = "returned"
  /\ events' = ev
  /\ calls' = cl
  /\ report' = [rep EXCEPT !.steps = ev]

\* Step 1: LLM0 decides the plan, and run() branches on it.
Plan ==
  /\ pc = "plan"
  /\ UNCHANGED <<notRun, stdout, exit_status>>
  /\ LET ev0 == Append(events, StepEvent("plan", "planning", NoData, FALSE))
         cl == Append(calls, ExtCall("llm0_plan", 0, Len(ev0)))
     IN \/ \E f \in LLMFailures :
             /\ Raise(ev0, cl)
             /\ llm_records' = chat_json(llm_records, "llm0_plan", BadReply, f, Len(ev0))
             /\ UNCHANGED <<plan, sidx, all_results, read_targets, ridx, summaries, report>>
        \/ \E data \in PlanData :
             LET p == call_llm0_plan(data)
                 branch == PlanBranch(p)
             IN /\ plan' = p
                /\ llm_records' = chat_json(llm_records, "llm0_plan", data, "ok", Len(ev0))
                /\ UNCHANGED <<all_results, read_targets, ridx, summaries>>
                /\ IF branch = "direct"
                   THEN /\ Return(Append(ev0, StepEvent("final", "direct_answer", NoData, FALSE)),
                                  cl,
                                  [report EXCEPT !.final_answer = _wrap_direct_answer(p.direct_answer)])
                        /\ sidx' = sidx
                   ELSE IF branch = "abort"
                   THEN /\ Return(Append(ev0, StepEvent("error", "no_search_requests", NoData, TRUE)),
                                  cl, report)
                        /\ sidx' = sidx
                   ELSE /\ pc' = "search"
                        /\ sidx' = 1
                        /\ events' = ev0
                        /\ calls' = cl
                        /\ report' = report

\* AfterSearches going to the selection without logging the pool.
AfterSearchesUnlogged(rs, ev, cl) ==
  IF rs = <<>>
  THEN Return(Append(ev, StepEvent("final", "no_results", NoData, TRUE)), cl, report)
  ELSE /\ pc' = "select"
       /\ events' = Append(ev, StepEvent("select", "selecting", NoData, FALSE))
       /\ calls' = cl
       /\ report' = [report EXCEPT !.search_results = rs]

\* The code after the search loop, up to the selection request.
AfterSearches(rs, ev, cl) ==
  IF rs = <<>>
  THEN Return(Append(ev, StepEvent("final", "no_results", NoData, TRUE)), cl, report)
  ELSE /\ pc' = "select"
       /\ events' = ev \o <<StepEvent("search", "total", NoData, FALSE),
                             StepEvent("select", "selecting", NoData, FALSE)>>
       /\ calls' = cl
       /\ report' = [report EXCEPT !.search_results = rs]

\* Step 2: one turn of the search loop; the last turn runs on to step 3.
SearchStep ==
  /\ pc = "search"
  /\ UNCHANGED <<notRun, stdout, exit_status, llm_records>>
  /\ LET sreq == plan.search_requests[sidx]
         ev0 == Append(events, StepEvent("search", "running",
                          [search_index |-> sidx, query |-> sreq.query], FALSE))
         cl == Append(calls, ExtCall("search", sidx, Len(ev0)))
         last == sidx = Len(plan.search_requests)
     IN /\ UNCHANGED <<plan, read_targets, ridx, summaries>>
        /\ \/ \* self.search_client.search raises: log and continue
              LET ev1 == Append(ev0, StepEvent("error", "search_failed",
                               [search_index |-> sidx, query |-> sreq.query], TRUE))
              IN /\ all_results' = all_results
                 /\ IF last
                    THEN AfterSearches(all_results, ev1, cl) /\ sidx' = sidx
                    ELSE /\ sidx' = sidx + 1 /\ pc' = pc /\ events' = ev1
                         /\ calls' = cl /\ report' = report
           \/ \E rows \in HitLists :
                LET partial == SearchClient_search(sreq, rows)
                    rs == all_results \o Relabel(partial, sidx)
                    ev1 == Append(ev0, StepEvent("search", "returned",
                               [search_index |-> sidx, result_count |-> Len(partial)], FALSE))
                IN /\ all_results' = rs
                   /\ IF last
                      THEN AfterSearches(rs, ev1, cl) /\ sidx' = sidx
                      ELSE /\ sidx' = sidx + 1 /\ pc' = pc /\ events' = ev1
                           /\ calls' = cl /\ report' = report

\* Step 3: LLM0 selects, run() resolves the selection against all_results.
Select ==
  /\ pc = "select"
  /\ UNCHANGED <<notRun, stdout, exit_status>>
  /\ LET cl == Append(calls, ExtCall("llm0_select", 0, Len(events)))
     IN /\ UNCHANGED <<plan, sidx, all_results, summaries>>
        /\ \/ \E f \in ChatJsonFailures :
                /\ Raise(events, cl)
                /\ llm_records' = chat_json(llm_records, "llm0_select", BadReply, f, Len(events))
                /\ UNCHANGED <<read_targets, ridx, report>>
           \/ \E selected_ids \in SeqsUpTo(SelUniverse(all_results), MaxSel) :
                LET ev0 == Append(events, StepEvent("select", "selected",
                                 [selected_ids |-> selected_ids], FALSE))
                    targets == ResolveSelection(selected_ids, all_results)
                IN /\ read_targets' = targets
                   /\ llm_records' = chat_json(llm_records, "llm0_select",
                                              [selected_ids |-> selected_ids], "ok", Len(events))
                   /\ IF targets = <<>>
                      THEN /\ Return(Append(ev0, StepEvent("final", "none_selected", NoData, TRUE)),
                                     cl, report)
                           /\ ridx' = ridx
                      ELSE /\ pc' = "read"
                           /\ ridx' = 1
                           /\ events' = ev0
                           /\ calls' = cl
                           /\ report' = report

\* AfterReads going back to LLM0 for another selection instead of the synthesis.
AfterReadsSelectsAgain(sums, ev, cl) ==
  /\ pc' = "select"
  /\ events' = Append(ev, StepEvent("select", "selecting", NoData, FALSE))
  /\ calls' = cl
  /\ report' = [report EXCEPT !.raw_summaries = sums]

\* AfterReads returning without summaries and without flagging an error.
AfterReadsQuietAbort(sums, ev, cl) ==
  LET rep == [report EXCEPT !.raw_summaries = sums]
  IN IF sums = <<>>
     THEN Return(Append(ev, StepEvent("final", "no_summaries", NoData, FALSE)), cl, rep)
     ELSE /\ pc' = "synth"
          /\ events' = Append(ev, StepEvent("final", "synthesizing", NoData, FALSE))
          /\ calls' = cl
          /\ report' = rep

\* The code after the read loop, up to the synthesis request.
AfterReads(sums, ev, cl) ==
  LET rep == [report EXCEPT !.raw_summaries = sums]
  IN IF sums = <<>>
     THEN Return(Append(ev, StepEvent("final", "no_summaries", NoData, TRUE)), cl, rep)
     ELSE /\ pc' = "synth"
          /\ events' = Append(ev, StepEvent("final", "synthesizing", NoData, FALSE))
          /\ calls' = cl
          /\ report' = rep

\* What one turn of the read loop adds to summaries: outcome is what the
\* page fetch and the LLM1 call did.
ReadOne(sums, r, outcome) ==
  IF outcome = "ok" THEN Append(sums, ArticleSummary(r)) ELSE sums

ReadOutcomes == {"fetch_raises", "summarize_raises", "ok"}

\* Step 4: one turn of the read loop; the last turn runs on to step 5.
ReadStep ==
  /\ pc = "read"
  /\ UNCHANGED <<notRun, stdout, exit_status>>
  /\ \E outcome \in ReadOutcomes :
     \E f \in IF outcome = "summarize_raises" THEN ChatJsonFailures ELSE {"ok"} :
       LET r == read_targets[ridx]
           ev0 == Append(events, StepEvent("summarize", "fetching", [url |-> r.url], FALSE))
           cl0 == Append(calls, ExtCall("fetch_page_excerpt", r.id, Len(ev0)))
           cl == IF outcome = "fetch_raises" THEN cl0
                 ELSE Append(cl0, ExtCall("llm1_summarize", r.id, Len(ev0)))
           ev1 == Append(ev0,
                    IF outcome = "fetch_raises"
                    THEN StepEvent("error", "fetch_failed", [url |-> r.url], TRUE)
                    ELSE IF outcome = "summarize_raises"
                    THEN StepEvent("error", "summarize_failed", [url |-> r.url], TRUE)
                    ELSE StepEvent("summarize", "summarized", [result_id |-> r.id], FALSE))
           sums == ReadOne(summaries, r, outcome)
           last == ridx = Len(read_targets)
       IN /\ summaries' = sums
          /\ llm_records' =
               IF outcome = "fetch_raises" THEN llm_records
               ELSE chat_json(llm_records, "llm1_summarize",
                              IF f = "ok" THEN [summary |-> r.url] ELSE BadReply,
                              f, Len(ev0))
          /\ UNCHANGED <<plan, sidx, all_results, read_targets>>
          /\ IF last
             THEN AfterReads(sums, ev1, cl) /\ ridx' = ridx
             ELSE /\ ridx' = ridx + 1 /\ pc' = pc /\ events' = ev1
                  /\ calls' = cl /\ report' = report

\* What call_llm0_synthesize can return: data.get("answer", "").
SynthAnswers == {"", "report"}

\* Step 5: LLM0 synthesizes the final answer.
Synthesize ==
  /\ pc = "synth"
  /\ UNCHANGED <<notRun, stdout, exit_status>>
  /\ LET cl == Append(calls, ExtCall("llm0_synthesize", 0, Len(events)))
     IN /\ UNCHANGED <<plan, sidx, all_results, read_targets, ridx, summaries>>
        /\ \/ \E f \in ChatJsonFailures :
                /\ Raise(events, cl) /\ report' = report
                /\ llm_records' = chat_json(llm_records, "llm0_synthesize", BadReply, f, Len(events))
           \/ \E answer \in SynthAnswers :
                /\ Return(events, cl,
                          [report EXCEPT !.final_answer = FinalAnswer(answer, "synthesized")])
                /\ llm_records' = chat_json(llm_records, "llm0_synthesize",
                                           [answer |-> answer], "ok", Len(events))

\* ---------------------------------------------------------------- cmd_run
\* What cmd_run prints once run() has returned: the answer sections when
\* report.final_answer is set, then the steps and the session summary.
CmdRunOutput(rep) ==
  (IF rep.final_answer # None
   THEN <<[section |-> "FINAL ANSWER", text |-> rep.final_answer.answer],
          [section |-> "KEY POINTS", text |-> ""]>>
   ELSE <<>>)
  \o <<[section |-> "RAW STEPS", text |-> ""],
       [section |-> "SESSION SUMMARY", text |-> ""]>>

\* The process has ended with status code.
SystemExit(code) == [kind |-> "SystemExit", code |-> code]

\* The status cmd_run returns, which main hands to SystemExit.
CmdRunStatus(rep) == 0

\* The status of a Python process ended by an uncaught exception.
UncaughtExceptionStatus == 1

\* run() has returned its report: cmd_run prints it and returns.
CmdRunReturn ==
  /\ pc = "returned"
  /\ exit_status = None
  /\ UNCHANGED notRun
  /\ stdout' = CmdRunOutput(report)
  /\ exit_status' = SystemExit(CmdRunStatus(report))
  /\ UNCHANGED <<pc, plan, sidx, all_results, read_targets, ridx, summaries,
                 events, calls, report, llm_records>>

\* run() raised: nothing in cmd_run or main catches it, the interpreter
\* prints the traceback to stderr and the process ends.
CmdRunCrash ==
  /\ pc = "raised"
  /\ exit_status = None
  /\ UNCHANGED notRun
  /\ stdout' = stdout
  /\ exit_status' = SystemExit(UncaughtExceptionStatus)
  /\ UNCHANGED <<pc, plan, sidx, all_results, read_targets, ridx, summaries,
                 events, calls, report, llm_records>>

NextRun ==
  \/ Plan \/ SearchStep \/ Select \/ ReadStep \/ Synthesize
  \/ CmdRunReturn \/ CmdRunCrash

SpecRun == InitRun /\ [][NextRun]_vars

\* ------------------------------ a second question on the same orchestrator
\* What a StepLogger holds once a first run() has ended in its planning step,
\* by a direct answer or by an exception of the planner: log() and
\* log_llm_call() only append, and nothing empties the two lists.
FirstRunLeft ==
  {[events |-> <<StepEvent("plan", "planning", NoData, FALSE),
                 StepEvent("final", "direct_answer", NoData, FALSE)>>,
    llm_records |-> chat_json(<<>>, "llm0_plan", data, "ok", 1)] :
     data \in {d \in PlanData : PlanBranch(call_llm0_plan(d)) = "direct"}}
  \cup
  {[events |-> <<StepEvent("plan", "planning", NoData, FALSE)>>,
    llm_records |-> chat_json(<<>>, "llm0_plan", BadReply, f, 1)] :
     f \in LLMFailures}

\* run() is entered again: a new report, the logger as the first run left it.
InitSecondRun ==
  /\ ReadersIdle /\ MultiIdle /\ ValidateIdle /\ SearchIdle /\ Step1Idle
  /\ pc = "plan"
  /\ plan = PlanDecision("", "", <<>>)
  /\ sidx = 0
  /\ all_results = <<>>
  /\ read_targets = <<>>
  /\ ridx = 0
  /\ summaries = <<>>
  /\ \E left \in FirstRunLeft :
       /\ events = left.events
       /\ llm_records = left.llm_records
  /\ calls = <<>>
  /\ report = DeepSeekerReport(None, <<>>, <<>>, <<>>)
  /\ stdout = <<>>
  /\ exit_status = None

SpecSecondRun == InitSecondRun /\ [][NextRun]_vars


\* -------------------------------------------------- run_parallel_readers
\* The most documents in one batch, and the largest concurrency argument.
MaxDocs == 3
MaxConc == 2

\* SearchDoc: the batch's k-th document.
SearchDoc(k) == [doc_id |-> k, url |-> k, title |-> k]

\* Ratings are tenths: 7 is 0.7.
ReaderReport(doc_id, source_url, title, verdict, rating, reasons) ==
  [doc_id |-> doc_id, source_url |-> source_url, title |-> title,
   verdict |-> verdict, reliability |-> [rating |-> rating, reasons |-> reasons],
   key_points |-> <<>>, mini_summary |-> "", citation |-> source_url]

\* The JSON objects achat_json can return that ReaderReport(**out) accepts.
\* doc_id is whatever the model wrote: the document's, or another (0).
ReaderOutputs(doc) ==
  {ReaderReport(id, doc.url, doc.title, v[1], v[2], "model") :
     id \in {doc.doc_id, 0}, v \in {<<"relevant", 7>>, <<"not_relevant", 0>>}}

\* worker's except branch: "Return a negative report on error".
NegativeReport(doc) ==
  ReaderReport(doc.doc_id, doc.url, doc.title, "not_relevant", 0, "reader error")

\* What worker appends when run_single_reader raised.
WorkerOnError(rs, doc) == Append(rs, NegativeReport(doc))

InitReaders ==
  /\ RunIdle /\ MultiIdle /\ ValidateIdle /\ SearchIdle /\ Step1Idle
  /\ rp_pc = "called"
  /\ \E n \in 0..MaxDocs : docs = [k \in 1..n |-> SearchDoc(k)]
  /\ concurrency \in 1..MaxConc
  /\ task = [k \in 1..Len(docs) |-> "none"]
  /\ results = <<>>
  /\ writes = <<>>

InFlight == {k \in 1..Len(docs) : task[k] = "in_flight"}

\* Whether a scheduled worker may start while n reads are in flight:
\* start_soon starts every task, the concurrency argument is never read.
MayStart(n, limit) == TRUE

\* for d in docs: tg.start_soon(worker, d). The loop has no await: every
\* task is scheduled before the first one runs.
StartSoon ==
  /\ rp_pc = "called"
  /\ UNCHANGED notReaders
  /\ rp_pc' = "joining"
  /\ task' = [k \in 1..Len(docs) |-> "scheduled"]
  /\ UNCHANGED <<docs, concurrency, results, writes>>

\* results.append(...) in worker k: the object written is the list that
\* run_parallel_readers made, the one every worker closes over.
WorkerWrite(k) == [worker |-> k, object |-> "results", at |-> Len(results) + 1]

\* A worker runs up to its await of client.achat_json: its read is in flight.
WorkerStart(k) ==
  /\ rp_pc = "joining"
  /\ task[k] = "scheduled"
  /\ MayStart(Cardinality(InFlight), concurrency)
  /\ UNCHANGED notReaders
  /\ task' = [task EXCEPT ![k] = "in_flight"]
  /\ UNCHANGED <<rp_pc, docs, concurrency, results, writes>>

\* The reader call of worker k ends: with an accepted report, or with an
\* exception (transport, no JSON, a report the schema rejects).
WorkerFinish(k) ==
  /\ rp_pc = "joining"
  /\ task[k] = "in_flight"
  /\ UNCHANGED notReaders
  /\ task' = [task EXCEPT ![k] = "done"]
  /\ \/ \E rep \in ReaderOutputs(docs[k]) : results' = Append(results, rep)
     \/ results' = WorkerOnError(results, docs[k])
  /\ writes' = Append(writes, WorkerWrite(k))
  /\ UNCHANGED <<rp_pc, docs, concurrency>>

\* Join returning as soon as the tasks are scheduled.
JoinEarly ==
  /\ rp_pc = "joining"
  /\ UNCHANGED notReaders
  /\ rp_pc' = "returned"
  /\ UNCHANGED <<docs, concurrency, task, results, writes>>

\* The task group exits once every worker has finished; return results.
Join ==
  /\ rp_pc = "joining"
  /\ \A k \in 1..Len(docs) : task[k] = "done"
  /\ UNCHANGED notReaders
  /\ rp_pc' = "returned"
  /\ UNCHANGED <<docs, concurrency, task, results, writes>>

NextReaders ==
  \/ StartSoon
  \/ \E k \in 1..Len(docs) : WorkerStart(k)
  \/ \E k \in 1..Len(docs) : WorkerFinish(k)
  \/ Join

SpecReaders == InitReaders /\ [][NextReaders]_vars

\* --------------------------------------------- SearchProvider.search_multi
\* per_query_limit: int = 8
PerQueryLimit == 8
\* The longest row list one SERP fetch returns here.
MaxRows == 2
\* The values hash() can take here: two URL strings may or may not share
\* one, as with the 64-bit value of the URL strings.
HashValues == {0, 1, 2}
MultiURLs == {"u1", "u2", "u3"}

\* BingSiftProvider.search: rows[:per_query_limit], doc_id = str(hash(r.url)).
BingSift_search(rows, per_query_limit) ==
  LET cut == Take(rows, per_query_limit)
  IN [i \in 1..Len(cut) |-> [doc_id |-> url_hash[cut[i]], url |-> cut[i]]]

RECURSIVE DedupKeepsLast(_, _)
\* Dedup keeping the last document of each URL.
DedupKeepsLast(ds, seen) ==
  IF ds = <<>> THEN <<>>
  ELSE IF \E i \in 2..Len(ds) : ds[i].url = Head(ds).url
       THEN DedupKeepsLast(Tail(ds), seen)
       ELSE <<Head(ds)>> \o DedupKeepsLast(Tail(ds), seen)

RECURSIVE Dedup(_, _)
\* "Remove duplicates by URL": keep d unless its url was seen.
Dedup(ds, seen) ==
  IF ds = <<>> THEN <<>>
  ELSE IF Head(ds).url \in seen THEN Dedup(Tail(ds), seen)
       ELSE <<Head(ds)>> \o Dedup(Tail(ds), seen \cup {Head(ds).url})

InitMulti ==
  /\ RunIdle /\ ReadersIdle /\ ValidateIdle /\ SearchIdle /\ Step1Idle
  /\ sm_pc = "called"
  /\ queries \in SeqsUpTo(QueryTexts, MaxQueries)
  /\ qidx = 0
  /\ pooled = <<>>
  /\ uniq = <<>>
  /\ fetched = <<>>
  /\ url_hash \in [MultiURLs -> HashValues]

\* search_multi is entered: pooled = []; with no query the loop is skipped.
MultiEnter ==
  /\ sm_pc = "called"
  /\ UNCHANGED notMulti
  /\ UNCHANGED <<queries, pooled, fetched, url_hash>>
  /\ IF queries = <<>>
     THEN sm_pc' = "returned" /\ uniq' = Dedup(pooled, {}) /\ qidx' = qidx
     ELSE sm_pc' = "searching" /\ uniq' = uniq /\ qidx' = 1

\* One turn of the query loop: await self.search(...). An exception is not
\* caught: it leaves search_multi. The last turn runs on to the return.
MultiSearch ==
  /\ sm_pc = "searching"
  /\ UNCHANGED notMulti
  /\ UNCHANGED <<queries, url_hash>>
  /\ \/ sm_pc' = "raised" /\ UNCHANGED <<qidx, pooled, uniq, fetched>>
     \/ \E rows \in SeqsUpTo(MultiURLs, MaxRows) :
          LET got == BingSift_search(rows, PerQueryLimit)
              all == pooled \o got
          IN /\ pooled' = all
             /\ fetched' = Append(fetched, got)
             /\ IF qidx = Len(queries)
                THEN sm_pc' = "returned" /\ uniq' = Dedup(all, {}) /\ qidx' = qidx
                ELSE sm_pc' = "searching" /\ uniq' = uniq /\ qidx' = qidx + 1

NextMulti == MultiEnter \/ MultiSearch

SpecMulti == InitMulti /\ [][NextMulti]_vars


\* ------------------------------- BingSiftProvider.search and net._fetch
\* The largest retries a provider is built with here.
MaxRetries == 2
\* retries: int = 2
RetriesDefault == 2
\* delay: float = 1.0, in seconds
Delay == 1
\* The recency_days a query item can carry, next to None.
RecencyDays == {0, 1, 2, 7, 8, 30, 31}
\* when: str = "week", or what the provider was built with.
WhenChoices == {"week", "any"}

\* "recency_days -> translate to BingSift `when` heuristic"
Freshness(recency_days, self_when) ==
  IF recency_days # None /\ recency_days.v # 0
  THEN IF recency_days.v <= 1 THEN "day"
       ELSE IF recency_days.v <= 7 THEN "week"
       ELSE "month"
  ELSE self_when

\* SleepBefore with the same wait before every attempt.
SleepBeforeFlat(n) == Delay

\* _sleep(delay if attempt == 0 else delay * (attempt + 1))
SleepBefore(n) == IF n = 0 THEN Delay ELSE Delay * (n + 1)

\* The exception attempt n raised, and the one for a loop that never ran.
RequestException(n) == [kind |-> "RequestException", attempt |-> n]
RuntimeError == [kind |-> "RuntimeError"]
\* The text attempt n received.
ResponseText(n) == [kind |-> "text", attempt |-> n]

InitSearch ==
  /\ RunIdle /\ ReadersIdle /\ MultiIdle /\ ValidateIdle /\ Step1Idle
  /\ bs_pc = "called"
  /\ bs_recency \in {None} \cup {IntV(d) : d \in RecencyDays}
  /\ bs_self_when \in WhenChoices
  /\ bs_retries \in (-1)..MaxRetries
  /\ when = ""
  /\ attempt = 0
  /\ last_exc = None
  /\ tries = <<>>
  /\ slept = <<>>
  /\ fetch_out = None

\* _fetch leaves its loop without a response: raise last_exc if last_exc
\* else RuntimeError(...).
RaiseLast(exc) ==
  /\ bs_pc' = "raised"
  /\ fetch_out' = IF exc # None THEN exc ELSE RuntimeError

\* search picks the freshness and calls fetch_serp_by_query, which calls
\* _fetch: last_exc = None, and the loop is entered if range(retries + 1)
\* holds a value.
SearchEnter ==
  /\ bs_pc = "called"
  /\ UNCHANGED notSearch
  /\ when' = Freshness(bs_recency, bs_self_when)
  /\ UNCHANGED <<bs_recency, bs_self_when, bs_retries, attempt, last_exc, tries, slept>>
  /\ IF bs_retries + 1 <= 0
     THEN RaiseLast(last_exc)
     ELSE bs_pc' = "fetching" /\ fetch_out' = fetch_out

\* The loop running past the first response instead of returning it.
AfterResponseRetries(n) ==
  IF n + 1 < bs_retries + 1
  THEN /\ bs_pc' = "fetching" /\ attempt' = n + 1
       /\ fetch_out' = ResponseText(n) /\ last_exc' = last_exc
  ELSE /\ bs_pc' = "returned" /\ attempt' = n
       /\ fetch_out' = ResponseText(n) /\ last_exc' = last_exc

\* return r.text: the first response ends _fetch.
AfterResponse(n) ==
  /\ bs_pc' = "returned" /\ attempt' = n
  /\ fetch_out' = ResponseText(n) /\ last_exc' = last_exc

\* One turn of the loop of _fetch: sleep, then the request. A response ends
\* the call; an exception is kept and the loop goes on, and past its last
\* turn the kept exception is raised.
FetchAttempt ==
  /\ bs_pc = "fetching"
  /\ UNCHANGED notSearch
  /\ UNCHANGED <<bs_recency, bs_self_when, bs_retries, when>>
  /\ slept' = Append(slept, SleepBefore(attempt))
  /\ \/ /\ tries' = Append(tries, [attempt |-> attempt, ok |-> TRUE])
        /\ AfterResponse(attempt)
     \/ /\ tries' = Append(tries, [attempt |-> attempt, ok |-> FALSE])
        /\ last_exc' = RequestException(attempt)
        /\ IF attempt + 1 < bs_retries + 1
           THEN bs_pc' = "fetching" /\ attempt' = attempt + 1 /\ fetch_out' = fetch_out
           ELSE RaiseLast(RequestException(attempt)) /\ attempt' = attempt

NextSearch == SearchEnter \/ FetchAttempt

SpecSearch == InitSearch /\ [][NextSearch]_vars

\* ------------------------------------------------------ either network call
\* One search call with its retries, or one call of run() with its page reads.
SpecNet == (InitSearch \/ InitRun) /\ [][NextSearch \/ NextRun]_vars

\* -------------------------------------------------------- either pool
\* One call of run() or one call of search_multi: the two places where the
\* results of several queries are put into one list.
SpecPools == (InitRun \/ InitMulti) /\ [][NextRun \/ NextMulti]_vars

\* ------------------------------------------------------- either fan-out
\* One call of run() or one call of run_parallel_readers: the two places
\* where a batch is gone through before the caller moves on.
SpecBatches == (InitRun \/ InitReaders) /\ [][NextRun \/ NextReaders]_vars

\* ------------------------------------------- the decision schema (schema.py)
\* The longest queries / to_read list of a raw decision.
MaxItems == 1
\* per_query_limit: int = 8
SearchPlanLimitDefault == 8

\* What a model raises on data it does not accept.
ValidationError == [kind |-> "ValidationError"]

\* x: Optional[str] = None
OptionalStrRejectsNone(v) ==
  IF v.kind = "missing" THEN None
  ELSE IF v.kind = "str" THEN v ELSE ValidationError

OptionalStr(v) ==
  IF v.kind \in {"missing", "None"} THEN None
  ELSE IF v.kind = "str" THEN v ELSE ValidationError

\* x: Optional[int] = None
OptionalInt(v) ==
  IF v.kind \in {"missing", "None"} THEN None
  ELSE IF v.kind = "int" THEN v ELSE ValidationError

\* List[M]: a list whose every element model M accepted.
ListOf(v, items) ==
  IF v.kind # "list" THEN ValidationError
  ELSE IF \E i \in 1..Len(items) : items[i] = ValidationError THEN ValidationError
  ELSE List(items)

\* QueryItem: q is required; recency_days stands for the Optional fields
\* (site_filters, lang, notes are declared the same way).
QueryItem(v) ==
  IF v.kind # "dict" THEN ValidationError
  ELSE LET recency_days == OptionalInt(v.recency_days)
       IN IF v.q.kind # "str" \/ recency_days = ValidationError THEN ValidationError
          ELSE [kind |-> "QueryItem", q |-> v.q, recency_days |-> recency_days]

\* SearchPlan: queries is required, an empty list is a list.
SearchPlan(v) ==
  IF v.kind # "dict" THEN ValidationError
  ELSE LET qs ==
             ListOf(v.queries,
                    IF v.queries.kind = "list"
                    THEN [i \in 1..Len(v.queries.v) |-> QueryItem(v.queries.v[i])]
                    ELSE <<>>)
           per_query_limit ==
             IF v.per_query_limit.kind = "missing" THEN IntV(SearchPlanLimitDefault)
             ELSE IF v.per_query_limit.kind = "int" THEN v.per_query_limit
             ELSE ValidationError
       IN IF qs = ValidationError \/ per_query_limit = ValidationError
          THEN ValidationError
          ELSE [kind |-> "SearchPlan", queries |-> qs,
                per_query_limit |-> per_query_limit]

\* ReadPick: doc_id is required (reason and max_tokens are Optional).
ReadPick(v) ==
  IF v.kind # "dict" \/ v.doc_id.kind # "str" THEN ValidationError
  ELSE [kind |-> "ReadPick", doc_id |-> v.doc_id]

\* ReadSelection: to_read is required, an empty list is a list.
ReadSelection(v) ==
  IF v.kind # "dict" THEN ValidationError
  ELSE LET to_read ==
             ListOf(v.to_read,
                    IF v.to_read.kind = "list"
                    THEN [i \in 1..Len(v.to_read.v) |-> ReadPick(v.to_read.v[i])]
                    ELSE <<>>)
       IN IF to_read = ValidationError THEN ValidationError
          ELSE [kind |-> "ReadSelection", to_read |-> to_read]

ControllerAction == {"answer", "search", "select_for_read", "stop"}
Stages == {"initial", "after_read"}

\* ControllerDecision(**data): every field is validated by its own type;
\* the model declares no validator that relates one field to another.
ControllerDecision(data) ==
  LET role == IF data.role.kind = "missing" THEN Str("controller_decision")
              ELSE IF data.role = Str("controller_decision") THEN data.role
              ELSE ValidationError
      decision_id == IF data.decision_id.kind = "str" THEN data.decision_id
                     ELSE ValidationError
      stage == IF data.stage.kind = "str" /\ data.stage.v \in Stages THEN data.stage
               ELSE ValidationError
      action == IF data.action.kind = "str" /\ data.action.v \in ControllerAction
                THEN data.action ELSE ValidationError
      direct_answer == OptionalStr(data.direct_answer)
      search_plan == IF data.search_plan.kind \in {"missing", "None"} THEN None
                     ELSE SearchPlan(data.search_plan)
      read_selection == IF data.read_selection.kind \in {"missing", "None"} THEN None
                        ELSE ReadSelection(data.read_selection)
  IN IF ValidationError \in {role, decision_id, stage, action, direct_answer,
                             search_plan, read_selection}
     THEN ValidationError
     ELSE [kind |-> "ControllerDecision", role |-> role,
           decision_id |-> decision_id, stage |-> stage, action |-> action,
           direct_answer |-> direct_answer, search_plan |-> search_plan,
           read_selection |-> read_selection]

\* The data of a decision: every field present, nested models as objects.
model_dump(d) ==
  [kind |-> "dict", role |-> d.role, decision_id |-> d.decision_id,
   stage |-> d.stage, action |-> d.action, direct_answer |-> d.direct_answer,
   search_plan |->
     IF d.search_plan = None THEN None
     ELSE [kind |-> "dict",
           queries |-> List([i \in 1..Len(d.search_plan.queries.v) |->
                               [kind |-> "dict",
                                q |-> d.search_plan.queries.v[i].q,
                                recency_days |-> d.search_plan.queries.v[i].recency_days]]),
           per_query_limit |-> d.search_plan.per_query_limit],
   read_selection |->
     IF d.read_selection = None THEN None
     ELSE [kind |-> "dict",
           to_read |-> List([i \in 1..Len(d.read_selection.to_read.v) |->
                               [kind |-> "dict",
                                doc_id |-> d.read_selection.to_read.v[i].doc_id]])]]

\* The raw objects a decision-maker can answer with.
QueryItemData ==
  [kind : {"dict"}, q : {Str("qa"), Missing}, recency_days : {Missing, IntV(30)}]
SearchPlanData ==
  {Missing, None} \cup
  [kind : {"dict"},
   queries : {Missing} \cup {List(q) : q \in SeqsUpTo(QueryItemData, MaxItems)},
   per_query_limit : {Missing, IntV(5)}]
ReadPickData == [kind : {"dict"}, doc_id : {Str("d1"), Missing}]
ReadSelectionData ==
  {Missing, None} \cup
  [kind : {"dict"},
   to_read : {Missing} \cup {List(q) : q \in SeqsUpTo(ReadPickData, MaxItems)}]
ControllerData ==
  [kind : {"dict"},
   role : {Missing, Str("controller_decision"), Str("reader_report")},
   decision_id : {Missing, Str("id1")},
   stage : {Str("initial"), Str("final")},
   action : {Str(a) : a \in ControllerAction \cup {"read"}},
   direct_answer : {Missing, None, Str(""), Str("42")},
   search_plan : SearchPlanData,
   read_selection : ReadSelectionData]

InitValidate ==
  /\ RunIdle /\ ReadersIdle /\ MultiIdle /\ SearchIdle /\ Step1Idle
  /\ v_pc = "input"
  /\ v_data \in ControllerData
  /\ v_result = None
  /\ v_again = None

\* ControllerDecision(**data)
Validate ==
  /\ v_pc = "input"
  /\ UNCHANGED notValidate
  /\ v_pc' = "validated"
  /\ v_result' = ControllerDecision(v_data)
  /\ UNCHANGED <<v_data, v_again>>

\* ControllerDecision(**decision.model_dump())
Revalidate ==
  /\ v_pc = "validated"
  /\ v_result # ValidationError
  /\ UNCHANGED notValidate
  /\ v_pc' = "revalidated"
  /\ v_again' = ControllerDecision(model_dump(v_result))
  /\ UNCHANGED <<v_data, v_result>>

NextValidate == Validate \/ Revalidate

SpecValidate == InitValidate /\ [][NextValidate]_vars

\* ------------------------- DeepSeekerStep1.run and parse_tool_calls
\* The most tool blocks in one reply of LLM0.
MaxBlocks == 2

\* A JSON object, by its keys.
Obj(keys) == [kind |-> "object", v |-> keys]

\* bool(v) of a decoded JSON value; an absent key reads as None.
Truthy(v) ==
  CASE v.kind = "missing" -> FALSE
    [] v.kind = "str" -> v.v # ""
    [] v.kind = "int" -> v.v # 0
    [] v.kind \in {"list", "object"} -> v.v # <<>>

\* a or b
Or(a, b) == IF Truthy(a) THEN a ELSE b

\* What json.loads does with the text of one match of TOOL_BLOCK_RE: the
\* text starts with a brace, so it decodes to a dict or raises.
JSONDecodeError == [kind |-> "JSONDecodeError"]
\* The exceptions of json.loads that are not JSONDecodeError: ValueError for
\* a number over the integer digit limit, RecursionError for deep nesting.
LoadsError == [kind |-> "ValueError"]
Decoded(tool, id, args) == [kind |-> "dict", tool |-> tool, id |-> id, args |-> args]

ToolValues == {Missing, Str(""), Str("search"), Str("read")}
IdValues == {Missing, Str("c1")}
ArgsValues == {Missing, Obj(<<>>), Obj(<<"query">>), List(<<>>), List(<<"query">>)}

\* The matches TOOL_BLOCK_RE.finditer can yield, by what json.loads makes
\* of each.
ToolBlocks ==
  {JSONDecodeError, LoadsError}
  \cup {Decoded(t, i, a) : t \in ToolValues, i \in IdValues, a \in ArgsValues}

\* The replies of LLM0, as their tool blocks in order of occurrence.
ModelOutputs == SeqsUpTo(ToolBlocks, MaxBlocks)

ToolCall(tool, id, args) == [tool |-> tool, id |-> id, args |-> args]

ParseReturned(cs) == [raised |-> FALSE, calls |-> cs]
ParseRaised == [raised |-> TRUE, calls |-> <<>>]

\* The loop of parse_tool_calls over the matches still to come.
RECURSIVE parse_loop(_, _)
parse_loop(matches, cs) ==
  IF matches = <<>> THEN ParseReturned(cs)
  ELSE LET data == Head(matches)
       IN IF data = JSONDecodeError THEN parse_loop(Tail(matches), cs)
          ELSE IF data = LoadsError THEN ParseRaised
          ELSE LET tool == data.tool
                   call_id == Or(Or(data.id, tool), Str("tool"))
                   args == Or(data.args, Obj(<<>>))
               IN IF ~Truthy(tool) \/ args.kind # "object"
                  THEN parse_loop(Tail(matches), cs)
                  ELSE parse_loop(Tail(matches),
                                  Append(cs, ToolCall(tool.v, call_id.v, args)))

parse_tool_calls(text) == parse_loop(text, <<>>)

Step1Result(raw_response, decision, tool_call) ==
  [raw_response |-> raw_response, decision |-> decision, tool_call |-> tool_call]

\* Step1Decision taking the first search call, wherever it is in the list.
Step1DecisionAnySearch(raw_response, cs) ==
  LET found == SelectSeq(cs, LAMBDA c : c.tool = "search")
  IN IF found # <<>>
     THEN Step1Result(raw_response, "search", found[1])
     ELSE Step1Result(raw_response, "direct", None)

\* The decision of run() on the parsed tool calls.
Step1Decision(raw_response, cs) ==
  IF cs # <<>> /\ cs[1].tool = "search"
  THEN Step1Result(raw_response, "search", cs[1])
  ELSE Step1Result(raw_response, "direct", None)

InitStep1 ==
  /\ RunIdle /\ ReadersIdle /\ MultiIdle /\ ValidateIdle /\ SearchIdle
  /\ s1_pc = "chat"
  /\ raw = <<>>
  /\ tool_calls = <<>>
  /\ step1 = None

\* raw = self.client.chat(self.config.llm0, messages)
Step1Chat ==
  /\ s1_pc = "chat"
  /\ UNCHANGED <<notStep1, tool_calls, step1>>
  /\ \/ \E text \in ModelOutputs : raw' = text /\ s1_pc' = "parse"
     \/ raw' = raw /\ s1_pc' = "chat_raised"

\* tool_calls = parse_tool_calls(raw)
Step1Parse ==
  /\ s1_pc = "parse"
  /\ UNCHANGED <<notStep1, raw, step1>>
  /\ LET out == parse_tool_calls(raw)
     IN IF out.raised
        THEN s1_pc' = "parse_raised" /\ tool_calls' = tool_calls
        ELSE s1_pc' = "decide" /\ tool_calls' = out.calls

\* The two returns of run().
Step1Return ==
  /\ s1_pc = "decide"
  /\ UNCHANGED <<notStep1, raw, tool_calls>>
  /\ step1' = Step1Decision(raw, tool_calls)
  /\ s1_pc' = "done"

NextStep1 == Step1Chat \/ Step1Parse \/ Step1Return

SpecStep1 == InitStep1 /\ [][NextStep1]_vars

\* ================================================================ claims
CallIdx(kinds) == {i \in 1..Len(calls) : calls[i].call \in kinds}

\* The read loop of run() has gone through all of read_targets.
ReadLoopDone == pc \in {"synth", "returned", "raised"} /\ read_targets # <<>>

\* The reads of run() that raised: the event after the fetch is an error.
FailedReads ==
  {calls[i].arg : i \in {j \in CallIdx({"fetch_page_excerpt"}) : events[calls[j].at + 1].error}}

\* C1: a read batch over N resolved documents yields exactly N reports, for
\* every combination of fetch/summarize successes and failures. Stated of the
\* sequential pipeline: after step 4 the summaries are as many as read_targets.
C1_BatchHasOneReportPerDocument ==
  ReadLoopDone => Len(report.raw_summaries) = Len(read_targets)

\* The same of run_parallel_readers, where it holds.
ReadersBatchComplete == rp_pc = "returned" => Len(results) = Len(docs)

\* C2: a document whose read raised gets a report of its own carrying its
\* doc_id (the synthetic negative report), and its siblings are still read.
\* Stated of the sequential pipeline.
C2_FailedReadGetsSyntheticReport ==
  ReadLoopDone =>
    /\ \A id \in FailedReads : \E j \in 1..Len(summaries) : summaries[j].result_id = id
    /\ \A i \in 1..Len(read_targets) :
         \E j \in CallIdx({"fetch_page_excerpt"}) : calls[j].arg = read_targets[i].id

\* C3: when one query of a plan raises, the fan-out goes on: the other
\* queries are executed and the call ends with a pool, not with the
\* exception. Stated of search_multi.
C3_FailedQueryDoesNotFailThePlan == sm_pc # "raised"

C5_OneDocumentPerUrl ==
  \A i, j \in 1..Len(all_results) :
    all_results[i].url = all_results[j].url => i = j

\* The same of search_multi, where it holds.
MultiOneDocumentPerUrl ==
  \A i, j \in 1..Len(uniq) : uniq[i].url = uniq[j].url => i = j

\* C6: when the first decision is a direct answer with a non-empty text,
\* run returns that text as the final answer after this one decision, and
\* makes no search, fetch, selection, reader or synthesis request.
C6_DirectAnswerEndsTheRun ==
  (plan.action = "direct_answer" /\ plan.direct_answer # "") =>
    /\ pc = "returned"
    /\ report.final_answer.kind = "FinalAnswer"
    /\ report.final_answer.answer = plan.direct_answer
    /\ Len(calls) = 1 /\ calls[1].call = "llm0_plan"
    /\ all_results = <<>> /\ read_targets = <<>> /\ summaries = <<>>

C6_Witness ==
  pc = "returned" /\ plan.action = "direct_answer" /\ plan.direct_answer = "42"

\* The rounds of the sequential pipeline (one decide -> act cycle each): the
\* planning decision opens the search round, the selection decision the read
\* round. Its budget is fixed: the max_rounds = 2 case of the round loop.
max_rounds == 2
Decisions == {"llm0_plan", "llm0_select"}
RoundsUsed == Cardinality(CallIdx(Decisions))
RoundAt(i) == Cardinality({j \in CallIdx(Decisions) : j <= i})

\* C7: the number of rounds used never exceeds max_rounds, and every search
\* and every read belongs to one of these rounds.
C7_RoundsWithinBudget ==
  /\ RoundsUsed <= max_rounds
  /\ \A i \in CallIdx({"search", "fetch_page_excerpt", "llm1_summarize"}) :
       RoundAt(i) <= max_rounds

\* A run that used both rounds and returned the synthesized answer.
C7_Witness ==
  /\ pc = "returned" /\ RoundsUsed = max_rounds
  /\ report.final_answer.kind = "FinalAnswer" /\ summaries # <<>>

\* C8: when the final (forced) request to LLM0 fails, the session still ends
\* normally, with a final answer (the empty string), not with an exception;
\* and that request is made once.
C8_FinalizeFailureIsNotFatal ==
  CallIdx({"llm0_synthesize"}) # {} =>
    /\ Cardinality(CallIdx({"llm0_synthesize"})) = 1
    /\ pc = "returned"
    /\ report.final_answer.kind = "FinalAnswer"

\* C9: whatever call fails, no exception leaves run().
C9_NoExceptionLeavesRun == pc # "raised"

\* C10: at no moment are more than `concurrency` reads in flight.
C10_AtMostConcurrencyInFlight == Cardinality(InFlight) <= concurrency

\* The printed sections that give the user an answer.
AnswerShown == \E i \in 1..Len(stdout) : stdout[i].section = "FINAL ANSWER"

\* C11: when the session ends with no final answer, the run command shows an
\* explicit (empty or degraded) answer and ends with a non-zero status.
C11_TotalFailureIsVisible ==
  (exit_status # None /\ report.final_answer = None) =>
    /\ exit_status.code # 0
    /\ AnswerShown

\* The field the action of decision d requires is there and not empty.
RequiredFieldPresent(d) ==
  CASE d.action.v \in {"answer", "stop"} ->
         d.direct_answer.kind = "str" /\ d.direct_answer.v # ""
    [] d.action.v = "search" ->
         d.search_plan.kind = "SearchPlan" /\ d.search_plan.queries.v # <<>>
    [] d.action.v = "select_for_read" ->
         d.read_selection.kind = "ReadSelection" /\ d.read_selection.to_read.v # <<>>

\* C12: the validator accepts a decision only if the field its action
\* requires is present and non-empty; otherwise it raises the schema error.
C12_ValidatorRequiresActionField ==
  (v_pc \in {"validated", "revalidated"} /\ v_result # ValidationError) =>
    RequiredFieldPresent(v_result)

\* C14: validating the data of a decision the validator accepted succeeds
\* again and gives a decision equal to the first one.
C14_RevalidationIsIdempotent ==
  v_pc = "revalidated" => (v_again # ValidationError /\ v_again = v_result)

\* A decision revalidated after the first validation filled in defaults
\* the raw object did not have.
C14_Witness ==
  /\ v_pc = "revalidated"
  /\ v_data.role = Missing /\ v_data.direct_answer = Missing
  /\ v_data.search_plan.kind = "dict"
  /\ v_data.search_plan.per_query_limit = Missing
  /\ v_data.search_plan.queries.v # <<>>
  /\ v_again.search_plan.per_query_limit = IntV(SearchPlanLimitDefault)

\* The selections LLM0 has made: the selected_ids of each "selected" event.
Selections == {events[i].data.selected_ids :
                 i \in {j \in 1..Len(events) : events[j].message = "selected"}}
\* The positions of selection sel that name a document of the pool.
InPool(sel) == {i \in 1..Len(sel) : \E j \in 1..Len(all_results) : all_results[j].id = sel[i]}
\* The ids handed to the reader stage so far, in order.
ReadIds ==
  LET f == SelectSeq(calls, LAMBDA c : c.call = "fetch_page_excerpt")
  IN [k \in 1..Len(f) |-> f[k].arg]

\* C13: the ids of a selection that are not in the pool are dropped and raise
\* nothing; the documents read are exactly the selected ids that are in the
\* pool, in the order of the selection.
C13_UnknownIdsAreDropped ==
  \A sel \in Selections :
    /\ Len(read_targets) = Cardinality(InPool(sel))
    /\ \A k \in 1..Len(read_targets) :
         /\ \E j \in 1..Len(all_results) : all_results[j] = read_targets[k]
         /\ \E i \in InPool(sel) :
              /\ Cardinality({h \in InPool(sel) : h <= i}) = k
              /\ read_targets[k].id = sel[i]
    /\ IF read_targets = <<>> THEN pc = "returned"
       ELSE /\ pc = "raised" => CallIdx({"llm0_synthesize"}) # {}
            /\ Len(ReadIds) <= Len(read_targets)
            /\ \A k \in 1..Len(ReadIds) : ReadIds[k] = read_targets[k].id
            /\ ReadLoopDone => Len(ReadIds) = Len(read_targets)

\* A selection of an id outside the pool and one inside it, read to the end.
C13_Witness ==
  /\ ReadLoopDone
  /\ \E sel \in Selections :
       /\ InPool(sel) # {}
       /\ \E i \in 1..Len(sel) : i \notin InPool(sel)

\* The external calls of the given kinds made before call i.
Before(kinds, i) == {j \in CallIdx(kinds) : j < i}
\* Call j had ended, with one of the outcomes, when call i was made.
EndedBefore(j, i, outcomes) ==
  /\ calls[j].at + 1 <= calls[i].at
  /\ events[calls[j].at + 1].message \in outcomes

\* C15: the selection request is made only once every search of the plan has
\* ended (returned or failed), the synthesis request only once every read of
\* the selection has ended, and run_parallel_readers returns only once every
\* worker has finished.
C15_NoRoundAdvancesOnPartialBatch ==
  /\ \A i \in CallIdx({"llm0_select"}) :
       /\ {calls[j].arg : j \in Before({"search"}, i)} = 1..Len(plan.search_requests)
       /\ \A j \in Before({"search"}, i) :
            EndedBefore(j, i, {"returned", "search_failed"})
  /\ \A i \in CallIdx({"llm0_synthesize"}) :
       /\ Cardinality(Before({"fetch_page_excerpt"}, i)) = Len(read_targets)
       /\ \A k \in 1..Len(read_targets) :
            \E j \in Before({"fetch_page_excerpt"}, i) : calls[j].arg = read_targets[k].id
       /\ \A j \in Before({"fetch_page_excerpt"}, i) :
            EndedBefore(j, i, {"fetch_failed", "summarize_failed", "summarized"})
  /\ rp_pc = "returned" => \A k \in 1..Len(docs) : task[k] = "done"

\* A run whose synthesis followed two searches and two reads, one of
\* which failed.
C15_Witness ==
  /\ CallIdx({"llm0_synthesize"}) # {}
  /\ Len(plan.search_requests) = 2 /\ Len(read_targets) = 2
  /\ FailedReads # {}

\* C16: the doc_ids of a returned read batch are exactly the doc_ids of the
\* input documents, whatever the workers' completion order and whatever the
\* reader returned.
C16_BatchDocIdsAreTheInputs ==
  rp_pc = "returned" =>
    /\ \A k \in 1..Len(docs) : \E i \in 1..Len(results) : results[i].doc_id = docs[k].doc_id
    /\ \A i \in 1..Len(results) : \E k \in 1..Len(docs) : results[i].doc_id = docs[k].doc_id

RECURSIVE Flatten(_)
Flatten(ss) == IF ss = <<>> THEN <<>> ELSE Head(ss) \o Flatten(Tail(ss))
\* The positions of list ds that hold the first document of their URL.
FirstSeen(ds) == {i \in 1..Len(ds) : \A j \in 1..(i - 1) : ds[j].url # ds[i].url}

Bucket(days) ==
  IF days <= 1 THEN "day" ELSE IF days <= 7 THEN "week"
  ELSE IF days <= 30 THEN "month" ELSE "any"

\* C18: the freshness handed to the search is day for recency_days <= 1,
\* week for <= 7, month for <= 30 and the long-range bucket above.
C18_FreshnessBuckets ==
  (bs_pc \in {"fetching", "returned", "raised"} /\ bs_recency # None) =>
    when = Bucket(bs_recency.v)

\* C20: a network call with retry count r makes at most r + 1 requests, makes
\* none after the first response and returns that response, and when every
\* request failed raises the exception of the last one. A page read of run()
\* is one request: its failure is the failure of that read alone.
C20_BoundedRetries ==
  /\ bs_pc # "idle" =>
       /\ Len(tries) <= bs_retries + 1
       /\ \A i \in 1..Len(tries) :
            /\ tries[i].attempt = i - 1
            /\ tries[i].ok => (i = Len(tries) /\ bs_pc = "returned")
       /\ bs_pc = "returned" =>
            /\ tries # <<>> /\ tries[Len(tries)].ok
            /\ fetch_out = ResponseText(Len(tries) - 1)
       /\ (bs_pc = "raised" /\ tries # <<>>) =>
            /\ Len(tries) = bs_retries + 1
            /\ fetch_out = RequestException(Len(tries) - 1)
  /\ Len(ReadIds) <= Len(read_targets)
  /\ \A k \in 1..Len(ReadIds) : ReadIds[k] = read_targets[k].id

\* With the default retry count, a search whose first request failed and
\* whose second was answered.
C20_Witness ==
  /\ bs_pc = "returned" /\ bs_retries = RetriesDefault
  /\ Len(tries) = 2 /\ ~tries[1].ok /\ tries[2].ok

\* C19: no two workers of a batch write to the same mutable collection:
\* each writes to an output slot of its own.
C19_WorkersWriteOwnSlots ==
  \A i, j \in 1..Len(writes) :
    writes[i].object = writes[j].object => writes[i].worker = writes[j].worker

\* C21: within one retried call the wait before each attempt is longer
\* than the wait before the attempt preceding it.
C21_BackoffIncreases ==
  \A k \in 1..(Len(slept) - 1) : slept[k] < slept[k + 1]

\* Three attempts have been made, each after its wait.
C21_Witness == Len(slept) = 3 /\ Len(tries) = 3 /\ Delay > 0

\* An event with one of the messages was logged before call i was made.
LoggedBefore(i, messages) ==
  \E e \in 1..calls[i].at : events[e].message \in messages
\* A record of a reply to a call of the type was kept before call i was made.
RecordedBefore(i, call_type) ==
  \E k \in 1..Len(llm_records) :
    /\ llm_records[k].call_type = call_type
    /\ llm_records[k].response # ErrorResponse
    /\ llm_records[k].timestamp <= calls[i].at

C23_LogIsAppendOnly ==
  /\ [](pc = "returned" => report.steps = events)
  /\ [][/\ Len(events') >= Len(events)
        /\ SubSeq(events', 1, Len(events)) = events]_vars

\* A run has returned a report of six or more steps.
C23_Witness ==
  pc = "returned" /\ Len(events) >= 6 /\ report.steps = events

\* The calls of chat_json, in order.
LLMKinds == {"llm0_plan", "llm0_select", "llm1_summarize", "llm0_synthesize"}
LLMCalls == SelectSeq(calls, LAMBDA c : c.call \in LLMKinds)

\* C29: every call of chat_json leaves exactly one record, of the reply or of
\* the error; a call that failed is not swallowed: its exception reaches the
\* caller (it leaves run(), or for LLM1 is caught by the read loop of run()).
C29_OneRecordPerLLMCall ==
  /\ Len(llm_records) = Len(LLMCalls)
  /\ \A k \in 1..Len(llm_records) :
       /\ llm_records[k].call_type = LLMCalls[k].call
       /\ llm_records[k].response = ErrorResponse =>
            IF llm_records[k].call_type = "llm1_summarize"
            THEN events[LLMCalls[k].at + 1].message = "summarize_failed"
            ELSE k = Len(llm_records) /\ pc = "raised"

\* A run whose first calls were answered and whose last call failed inside
\* chat_json.
C29_Witness ==
  /\ pc = "raised" /\ Len(llm_records) >= 3
  /\ llm_records[Len(llm_records)].response = ErrorResponse
  /\ llm_records[1].response # ErrorResponse

\* C26: a document of the pool is never changed once it is in the pool: the
\* pool only grows at its end. The id it got on insertion is the key the
\* read targets and the summaries carry.
C26_PoolDocumentsAreNeverChanged ==
  /\ [][/\ Len(all_results') >= Len(all_results)
        /\ SubSeq(all_results', 1, Len(all_results)) = all_results]_vars
  /\ [](\A k \in 1..Len(read_targets) :
          \E i \in 1..Len(all_results) : all_results[i] = read_targets[k])
  /\ [](\A j \in 1..Len(summaries) :
          \E i \in 1..Len(all_results) :
            /\ all_results[i].id = summaries[j].result_id
            /\ all_results[i].url = summaries[j].url)
  /\ [](report.search_results \in {<<>>, all_results})

\* A run has returned with a pool of three documents, one of them read.
C26_Witness ==
  /\ pc = "returned" /\ Len(all_results) >= 3 /\ summaries # <<>>
  /\ report.search_results = all_results

\* C28: a run that returns without a final answer has logged an event flagged
\* as an error, and has made no request since: that event is the last one and
\* every request was made before it.
C28_AbortLogsAnErrorAndStops ==
  (pc = "returned" /\ report.final_answer = None) =>
    /\ events # <<>> /\ events[Len(events)].error
    /\ report.steps = events
    /\ \A i \in 1..Len(calls) : calls[i].at < Len(events)

\* A run aborted after its reads: every read of the selection failed.
C28_Witness ==
  /\ pc = "returned" /\ report.final_answer = None
  /\ read_targets # <<>> /\ CallIdx({"fetch_page_excerpt"}) # {}

\* The actions the planning prompt allows.
ValidPlanActions == {"direct_answer", "search_then_answer"}
\* The planning records whose reply names an action that is not allowed.
InvalidPlanReplies ==
  {k \in 1..Len(llm_records) :
     /\ llm_records[k].call_type = "llm0_plan"
     /\ llm_records[k].response \notin {ErrorResponse, BadReply}
     /\ llm_records[k].response.action \notin ValidPlanActions}

\* C25: an action that is not valid is logged as an error, and the run then
\* either stops with no search and an empty answer or asks LLM0 once more.
C25_InvalidActionIsAnErrorThenStop ==
  \A k \in InvalidPlanReplies :
    /\ \/ CallIdx({"search"}) = {}
       \/ Cardinality(CallIdx({"llm0_plan"})) = 2
    /\ pc = "returned" =>
         \E e \in 1..Len(events) : events[e].error /\ e > llm_records[k].timestamp

\* C24: the steps of the report of a second run on the same orchestrator and
\* logger are the events logged since that run was entered, from its planning
\* event on, and none of the first run's.
C24_SecondReportHasOnlyItsOwnSteps ==
  pc = "returned" => report.steps = SubSeq(events, calls[1].at, Len(events))

\* The blocks the three conditions of the claim let through: the JSON
\* decodes, there is a tool name, and args is an object when it is given.
NotSkipped(b) ==
  /\ b.kind = "dict"
  /\ Truthy(b.tool)
  /\ b.args.kind \in {"missing", "object"}

\* C27: parse_tool_calls raises for no text; it skips the blocks whose JSON
\* does not parse, that name no tool or whose args is not an object, and
\* returns the calls of the other blocks in their order in the text.
C27_ParseSkipsBadBlocksAndNeverRaises ==
  /\ s1_pc # "parse_raised"
  /\ s1_pc \in {"decide", "done"} =>
       LET kept == SelectSeq(raw, NotSkipped)
       IN [i \in 1..Len(tool_calls) |-> tool_calls[i].tool]
            = [i \in 1..Len(kept) |-> kept[i].tool.v]

\* C30: the step-1 decision is search exactly when the first parsed tool
\* call is a search call, and then tool_call is that call; in every other
\* case the decision is direct and tool_call is None.
C30_SearchIffFirstCallIsSearch ==
  s1_pc = "done" =>
    /\ step1.raw_response = raw
    /\ step1.decision \in {"direct", "search"}
    /\ step1.decision = "search" <=>
         (tool_calls # <<>> /\ tool_calls[1].tool = "search")
    /\ step1.tool_call # None <=> step1.decision = "search"
    /\ step1.decision = "search" => step1.tool_call = tool_calls[1]

\* A reply whose first call is not a search and whose second call is:
\* the decision is direct.
C30_Witness ==
  /\ s1_pc = "done"
  /\ Len(tool_calls) = 2
  /\ tool_calls[1].tool = "read" /\ tool_calls[2].tool = "search"
  /\ step1.decision = "direct" /\ step1.tool_call = None

====
